---- MODULE Spec2Model ----
(***************************************************************************)
(* Model of the cyclone workflow controller:                               *)
(*   - WorkloadProcessor.Process / processPod / processDelegation          *)
(*     (pkg/workflow/workflowrun, second half of config.go)                *)
(*   - LoadConfig / validate (pkg/workflow/controller/config.go)           *)
(*   - UpdateProject (server handler, retry.RetryOnConflict)               *)
(*   - the Operator's conflict-retried UpdateStageStatus                   *)
(* The Operator, the PodEventWatcher and the external delegate are         *)
(* collaborators whose code is not part of the sources; they are modelled  *)
(* from their contract.                                                    *)
(***************************************************************************)
EXTENDS Integers, Sequences, FiniteSets, TLC

VARIABLES stg, stages0, stages, pc, err, po, latestWfr, ret, trace, watcher, delegate, podPhase,
          Config, logLevel, loadPc, cm, oldConfig, loadErr,
          nWriters, oStore, ow,
          pStore, req, uPc, attempts, origin, newProject, uErr, uRet, commit, otherWrites

wvars == <<stg, stages0, stages, pc, err, po, latestWfr, ret, trace, watcher, delegate, podPhase>>
cvars == <<Config, logLevel, loadPc, cm, oldConfig, loadErr>>
ovars == <<nWriters, oStore, ow>>
pvars == <<pStore, req, uPc, attempts, origin, newProject, uErr, uRet, commit, otherWrites>>
vars == <<stg, stages0, stages, pc, err, po, latestWfr, ret, trace, watcher, delegate, podPhase,
          Config, logLevel, loadPc, cm, oldConfig, loadErr,
          nWriters, oStore, ow,
          pStore, req, uPc, attempts, origin, newProject, uErr, uRet, commit, otherWrites>>

(***************************************************************************)
(* Phases, reasons, event types                                            *)
(***************************************************************************)
StatusWaiting == "Waiting"
StatusRunning == "Running"
StatusPending == "Pending"
StatusFailed == "Failed"
StatusSucceeded == "Succeeded"

EventTypeNormal == "Normal"
EventTypeWarning == "Warning"

\* util.IsPhaseTerminated
IsPhaseTerminated(phase) == phase \in {StatusSucceeded, StatusFailed}

NoPodInfo == [Name |-> "", Namespace |-> ""]
NoPod == [Name |-> "", Namespace |-> ""]
ThePod == [Name |-> "stage-pod", Namespace |-> "exec-ns"]

\* wfr.Status.Stages[p.stg.Name] in the stored WorkflowRun; ok = FALSE when
\* the map has no entry for the stage.  stages is the stored record, stages0
\* its value when Process() was invoked.
NoStageStatus == [ok |-> FALSE, Phase |-> "", Reason |-> "", Pod |-> NoPodInfo]

\* Errors of the collaborators
NoErr == "nil"
ErrBuild == "build error"
ErrExceededQuota == "exceeded quota"
ErrCreateOther == "create error"
ErrDelegate == "delegate error"
ErrGet == "get wfr error"
ErrBoth == "exact 1 workload expected, but got both"
ErrNone == "exact 1 workload expected, but got none"

isExceededQuotaError(e) == e = ErrExceededQuota

NoRet == [returned |-> FALSE, msg |-> "", wraps |-> NoErr]
RetNil == [returned |-> TRUE, msg |-> "", wraps |-> NoErr]
RetErr(m, e) == [returned |-> TRUE, msg |-> m, wraps |-> e]

(***************************************************************************)
(* Operator (contract: each call is one atomic read-modify-write of the    *)
(* run record; no write is ever rejected)                                  *)
(***************************************************************************)
UpdateStageStatus(s, phase, reason) ==
    [ok |-> TRUE, Phase |-> phase, Reason |-> reason, Pod |-> s.Pod]

UpdateStagePodInfo(s, podInfo) ==
    [ok |-> TRUE, Phase |-> s.Phase, Reason |-> s.Reason, Pod |-> podInfo]

\* Entries of the processor's effect log
Eventf(type, reason) == [op |-> "Eventf", a |-> type, b |-> reason]
StatusCall(phase, reason) == [op |-> "UpdateStageStatus", a |-> phase, b |-> reason]
PodInfoCall(p) == [op |-> "UpdateStagePodInfo", a |-> p.Name, b |-> p.Namespace]
CreateCall == [op |-> "Create", a |-> "", b |-> ""]
DelegateCall == [op |-> "Delegate", a |-> "", b |-> ""]
GetCall == [op |-> "Get", a |-> "", b |-> ""]
GoWork(p) == [op |-> "go Work", a |-> p.Name, b |-> p.Namespace]

(***************************************************************************)
(* WorkloadProcessor                                                       *)
(***************************************************************************)
InitWorkload ==
    /\ stg \in [Pod : BOOLEAN, Delegation : BOOLEAN]
    /\ stages \in {NoStageStatus,
                   [ok |-> TRUE, Phase |-> StatusPending, Reason |-> "CreatePodError", Pod |-> NoPodInfo]}
    /\ stages0 = stages
    /\ pc = "Process"
    /\ err = NoErr
    /\ po = NoPod
    /\ latestWfr = NoStageStatus
    /\ ret = NoRet
    /\ trace = << >>
    /\ watcher = "none"
    /\ delegate = "idle"
    /\ podPhase = ""

\* Process() without the both-set check: a stage with both workloads is
\* dispatched to the pod path.
Process_NoBothCheck ==
    /\ pc = "Process"
    /\ IF ~stg.Pod /\ ~stg.Delegation
         THEN pc' = "done" /\ ret' = RetErr(ErrNone, NoErr)
         ELSE IF stg.Pod
           THEN pc' = "processPod" /\ ret' = ret
           ELSE pc' = "processDelegation" /\ ret' = ret
    /\ UNCHANGED <<stg, stages0, stages, err, po, latestWfr, trace, watcher, delegate, podPhase, cvars, ovars, pvars>>

\* Process(): validation and dispatch
Process ==
    /\ pc = "Process"
    /\ IF stg.Pod /\ stg.Delegation
         THEN pc' = "done" /\ ret' = RetErr(ErrBoth, NoErr)
         ELSE IF ~stg.Pod /\ ~stg.Delegation
           THEN pc' = "done" /\ ret' = RetErr(ErrNone, NoErr)
           ELSE IF stg.Pod
             THEN pc' = "processPod" /\ ret' = ret
             ELSE pc' = "processDelegation" /\ ret' = ret
    /\ UNCHANGED <<stg, stages0, stages, err, po, latestWfr, trace, watcher, delegate, podPhase, cvars, ovars, pvars>>

\* processPod: pod.NewBuilder(...).Build()
BuildPod ==
    /\ pc = "processPod"
    /\ \E e \in {NoErr, ErrBuild} :
         /\ err' = e
         /\ pc' = IF e = NoErr THEN "create" ELSE "buildFailed"
    /\ UNCHANGED <<stg, stages0, stages, po, latestWfr, ret, trace, watcher, delegate, podPhase, cvars, ovars, pvars>>

\* Build failure branch recording the status before emitting the event
BuildFailed_StatusFirst ==
    /\ pc = "buildFailed"
    /\ trace' = trace \o <<StatusCall(StatusFailed, "GeneratePodError"),
                           Eventf(EventTypeWarning, "GeneratePodSpecError")>>
    /\ stages' = UpdateStageStatus(stages, StatusFailed, "GeneratePodError")
    /\ ret' = RetErr("create pod manifest", err)
    /\ pc' = "done"
    /\ UNCHANGED <<stg, stages0, err, po, latestWfr, watcher, delegate, podPhase, cvars, ovars, pvars>>

\* Build failure branch without its return: processPod goes on to submit
BuildFailed_NoReturn ==
    /\ pc = "buildFailed"
    /\ trace' = trace \o <<Eventf(EventTypeWarning, "GeneratePodSpecError"),
                           StatusCall(StatusFailed, "GeneratePodError")>>
    /\ stages' = UpdateStageStatus(stages, StatusFailed, "GeneratePodError")
    /\ pc' = "create"
    /\ UNCHANGED <<stg, stages0, err, po, latestWfr, ret, watcher, delegate, podPhase, cvars, ovars, pvars>>

\* processPod: manifest-build failure branch
BuildFailed ==
    /\ pc = "buildFailed"
    /\ trace' = trace \o <<Eventf(EventTypeWarning, "GeneratePodSpecError"),
                           StatusCall(StatusFailed, "GeneratePodError")>>
    /\ stages' = UpdateStageStatus(stages, StatusFailed, "GeneratePodError")
    /\ ret' = RetErr("create pod manifest", err)
    /\ pc' = "done"
    /\ UNCHANGED <<stg, stages0, err, po, latestWfr, watcher, delegate, podPhase, cvars, ovars, pvars>>

\* processPod: clusterClient.CoreV1().Pods(ns).Create(...)
CreatePod ==
    /\ pc = "create"
    /\ \E e \in {NoErr, ErrExceededQuota, ErrCreateOther} :
         /\ err' = e
         /\ po' = IF e = NoErr THEN ThePod ELSE NoPod
         /\ pc' = IF e = NoErr THEN "created" ELSE "createFailed"
         /\ podPhase' = IF e = NoErr THEN "Pending" ELSE podPhase
    /\ trace' = Append(trace, CreateCall)
    /\ UNCHANGED <<stg, stages0, stages, latestWfr, ret, watcher, delegate, cvars, ovars, pvars>>

\* Submission errors not classified: every one is reported as Failed.
CreateErrorPhase_AlwaysFailed(e) == StatusFailed

\* processPod: phase chosen for a submission error
CreateErrorPhase(e) ==
    IF isExceededQuotaError(e) THEN StatusPending ELSE StatusFailed

\* processPod: reason of the warning event recorded for a submission error
CreateErrorEventReason == "StagePodCreated"

\* processPod: submission failure branch
CreateFailed ==
    /\ pc = "createFailed"
    /\ trace' = trace \o <<Eventf(EventTypeWarning, CreateErrorEventReason),
                           StatusCall(CreateErrorPhase(err), "CreatePodError")>>
    /\ stages' = UpdateStageStatus(stages, CreateErrorPhase(err), "CreatePodError")
    /\ ret' = RetErr("create pod", err)
    /\ pc' = "done"
    /\ UNCHANGED <<stg, stages0, err, po, latestWfr, watcher, delegate, podPhase, cvars, ovars, pvars>>

\* processPod emitting the event but not launching the watcher
StartWatcher_NotLaunched ==
    /\ pc = "created"
    /\ trace' = trace \o <<Eventf(EventTypeNormal, "StagePodCreated")>>
    /\ pc' = "setRunning"
    /\ UNCHANGED <<stg, stages0, stages, err, po, latestWfr, ret, watcher, delegate, podPhase, cvars, ovars, pvars>>

\* processPod: normal event, then go p.podEventWatcher.Work(...)
StartWatcher ==
    /\ pc = "created"
    /\ trace' = trace \o <<Eventf(EventTypeNormal, "StagePodCreated"), GoWork(po)>>
    /\ watcher' = "started"
    /\ pc' = "setRunning"
    /\ UNCHANGED <<stg, stages0, stages, err, po, latestWfr, ret, delegate, podPhase, cvars, ovars, pvars>>

\* processPod: UpdateStageStatus(Running)
SetRunning ==
    /\ pc = "setRunning"
    /\ trace' = Append(trace, StatusCall(StatusRunning, "StagePodCreated"))
    /\ stages' = UpdateStageStatus(stages, StatusRunning, "StagePodCreated")
    /\ pc' = "setPodInfo"
    /\ UNCHANGED <<stg, stages0, err, po, latestWfr, ret, watcher, delegate, podPhase, cvars, ovars, pvars>>

\* processPod: UpdateStagePodInfo, return nil
SetPodInfo ==
    /\ pc = "setPodInfo"
    /\ trace' = Append(trace, PodInfoCall(po))
    /\ stages' = UpdateStagePodInfo(stages, [Name |-> po.Name, Namespace |-> po.Namespace])
    /\ ret' = RetNil
    /\ pc' = "done"
    /\ UNCHANGED <<stg, stages0, err, po, latestWfr, watcher, delegate, podPhase, cvars, ovars, pvars>>

\* The created pod's own lifecycle on the cluster
PodRuns ==
    /\ podPhase = "Pending"
    /\ podPhase' = "Running"
    /\ UNCHANGED <<stg, stages0, stages, pc, err, po, latestWfr, ret, trace, watcher, delegate, cvars, ovars, pvars>>

PodTerminates ==
    /\ podPhase \in {"Pending", "Running"}
    /\ podPhase' \in {"Succeeded", "Failed", "Deleted"}
    /\ UNCHANGED <<stg, stages0, stages, pc, err, po, latestWfr, ret, trace, watcher, delegate, cvars, ovars, pvars>>

\* PodEventWatcher.Work: the detached task subscribes to the pod's
\* lifecycle notifications ...
WatcherSubscribe ==
    /\ watcher = "started"
    /\ watcher' = "watching"
    /\ UNCHANGED <<stg, stages0, stages, pc, err, po, latestWfr, ret, trace, delegate, podPhase, cvars, ovars, pvars>>

\* ... and mirrors the pod's terminal transition into the stage status
\* through the Operator, then stops watching.
WatcherWork ==
    /\ watcher = "watching"
    /\ podPhase \in {"Succeeded", "Failed", "Deleted"}
    /\ stages' = UpdateStageStatus(stages,
                    IF podPhase = "Succeeded" THEN StatusSucceeded ELSE StatusFailed,
                    "PodTerminated")
    /\ watcher' = "stopped"
    /\ UNCHANGED <<stg, stages0, pc, err, po, latestWfr, ret, trace, delegate, podPhase, cvars, ovars, pvars>>

\* processDelegation: delegation.Delegate(...)
Delegate ==
    /\ pc = "processDelegation"
    /\ \E e \in {NoErr, ErrDelegate} :
         /\ err' = e
         /\ pc' = IF e = NoErr THEN "delegated" ELSE "delegateFailed"
         /\ delegate' = IF e = NoErr THEN "accepted" ELSE delegate
    /\ trace' = Append(trace, DelegateCall)
    /\ UNCHANGED <<stg, stages0, stages, po, latestWfr, ret, watcher, podPhase, cvars, ovars, pvars>>

\* Delegation failure branch that returns the error without recording it
DelegateFailed_NoStatus ==
    /\ pc = "delegateFailed"
    /\ trace' = trace \o <<Eventf(EventTypeWarning, "DelegationFailure")>>
    /\ ret' = RetErr("", err)
    /\ pc' = "done"
    /\ UNCHANGED <<stg, stages0, stages, err, po, latestWfr, watcher, delegate, podPhase, cvars, ovars, pvars>>

\* Delegation failure branch without its return: the re-read follows
DelegateFailed_NoReturn ==
    /\ pc = "delegateFailed"
    /\ trace' = trace \o <<Eventf(EventTypeWarning, "DelegationFailure"),
                           StatusCall(StatusFailed, "DelegationFailure")>>
    /\ stages' = UpdateStageStatus(stages, StatusFailed, "DelegationFailure")
    /\ pc' = "delegated"
    /\ UNCHANGED <<stg, stages0, err, po, latestWfr, ret, watcher, delegate, podPhase, cvars, ovars, pvars>>

\* processDelegation: delegation call failure branch
DelegateFailed ==
    /\ pc = "delegateFailed"
    /\ trace' = trace \o <<Eventf(EventTypeWarning, "DelegationFailure"),
                           StatusCall(StatusFailed, "DelegationFailure")>>
    /\ stages' = UpdateStageStatus(stages, StatusFailed, "DelegationFailure")
    /\ ret' = RetErr("", err)
    /\ pc' = "done"
    /\ UNCHANGED <<stg, stages0, err, po, latestWfr, watcher, delegate, podPhase, cvars, ovars, pvars>>

\* Terminal-phase check that only recognises Succeeded
SkipWaiting_OnlySucceeded(latest) == latest.ok /\ latest.Phase = StatusSucceeded

\* processDelegation: whether the re-read run lets the Waiting write go ahead
SkipWaiting(latest) == latest.ok /\ IsPhaseTerminated(latest.Phase)

\* Re-read whose failure is recorded as a Failed status before returning
GetLatestWfr_RecordsFailure ==
    /\ pc = "delegated"
    /\ \E e \in {NoErr, ErrGet} :
         /\ err' = e
         /\ IF e # NoErr
              THEN /\ latestWfr' = latestWfr
                   /\ ret' = RetErr("", e)
                   /\ pc' = "done"
                   /\ stages' = UpdateStageStatus(stages, StatusFailed, "GetWfrError")
                   /\ trace' = trace \o <<Eventf(EventTypeNormal, "DelegationSucceed"), GetCall,
                                          StatusCall(StatusFailed, "GetWfrError")>>
              ELSE /\ latestWfr' = stages
                   /\ stages' = stages
                   /\ trace' = trace \o <<Eventf(EventTypeNormal, "DelegationSucceed"), GetCall>>
                   /\ IF SkipWaiting(stages)
                        THEN ret' = RetNil /\ pc' = "done"
                        ELSE ret' = ret /\ pc' = "setWaiting"
    /\ UNCHANGED <<stg, stages0, po, watcher, delegate, podPhase, cvars, ovars, pvars>>

\* processDelegation: normal event, re-read of the run, terminal-phase check
GetLatestWfr ==
    /\ pc = "delegated"
    /\ \E e \in {NoErr, ErrGet} :
         /\ err' = e
         /\ IF e # NoErr
              THEN /\ latestWfr' = latestWfr
                   /\ ret' = RetErr("", e)
                   /\ pc' = "done"
              ELSE /\ latestWfr' = stages
                   /\ IF SkipWaiting(stages)
                        THEN ret' = RetNil /\ pc' = "done"
                        ELSE ret' = ret /\ pc' = "setWaiting"
    /\ trace' = trace \o <<Eventf(EventTypeNormal, "DelegationSucceed"), GetCall>>
    /\ UNCHANGED <<stg, stages0, stages, po, watcher, delegate, podPhase, cvars, ovars, pvars>>

\* Success path writing Pending instead of Waiting
SetWaiting_Pending ==
    /\ pc = "setWaiting"
    /\ trace' = Append(trace, StatusCall(StatusPending, "DelegationSucceed"))
    /\ stages' = UpdateStageStatus(stages, StatusPending, "DelegationSucceed")
    /\ ret' = RetNil
    /\ pc' = "done"
    /\ UNCHANGED <<stg, stages0, err, po, latestWfr, watcher, delegate, podPhase, cvars, ovars, pvars>>

\* processDelegation: UpdateStageStatus(Waiting), return nil
SetWaiting ==
    /\ pc = "setWaiting"
    /\ trace' = Append(trace, StatusCall(StatusWaiting, "DelegationSucceed"))
    /\ stages' = UpdateStageStatus(stages, StatusWaiting, "DelegationSucceed")
    /\ ret' = RetNil
    /\ pc' = "done"
    /\ UNCHANGED <<stg, stages0, err, po, latestWfr, watcher, delegate, podPhase, cvars, ovars, pvars>>

\* The external delegate reports the stage's terminal phase by mutating the
\* WorkflowRun out of band, any time after it accepted the request.
DelegateCallback ==
    /\ delegate = "accepted"
    /\ \E phase \in {StatusSucceeded, StatusFailed} :
         stages' = [ok |-> TRUE, Phase |-> phase, Reason |-> "DelegateReported", Pod |-> stages.Pod]
    /\ delegate' = "reported"
    /\ UNCHANGED <<stg, stages0, pc, err, po, latestWfr, ret, trace, watcher, podPhase, cvars, ovars, pvars>>

NextWorkload ==
    \/ Process
    \/ BuildPod
    \/ BuildFailed
    \/ CreatePod
    \/ CreateFailed
    \/ StartWatcher
    \/ SetRunning
    \/ SetPodInfo
    \/ PodRuns
    \/ PodTerminates
    \/ WatcherSubscribe
    \/ WatcherWork
    \/ Delegate
    \/ DelegateFailed
    \/ GetLatestWfr
    \/ SetWaiting
    \/ DelegateCallback


(***************************************************************************)
(* Controller configuration: LoadConfig / validate                         *)
(***************************************************************************)
GitResolverImage == "git-resolver"
ImageResolverImage == "image-resolver"
KvResolverImage == "kv-resolver"
CoordinatorImage == "coordinator"
GCImage == "gc"

RequiredImageKeys == {GitResolverImage, ImageResolverImage, KvResolverImage, CoordinatorImage}
ImageKeys == RequiredImageKeys \cup {GCImage}

\* Largest number of image keys a generated document leaves out
MaxMissing == 1

ImageRefs == {"img:1", "img:2"}
Absent == "<absent>"
BadType == "<number>"

EmptyImages == [k \in {} |-> "img:1"]

\* Zero value of WorkflowControllerConfig (var Config before any load)
ZeroConfig == [Images |-> EmptyImages, PVC |-> "", Secret |-> "", Level |-> ""]

\* The documents a ConfigMap may carry under ConfigFileKey.  A field that is
\* Absent does not occur in the JSON text; BadType is a JSON number where the
\* struct field is a string.
ImageSections ==
    {[has |-> FALSE, m |-> EmptyImages]} \cup
    {[has |-> TRUE, m |-> [k \in S |-> r]] :
        S \in {T \in SUBSET ImageKeys : Cardinality(ImageKeys \ T) <= MaxMissing},
        r \in ImageRefs}

JsonDocs ==
    [kind : {"json"}, images : ImageSections,
     pvc : {Absent, "", "pvc-a"}, secret : {Absent, "", "secret-a"},
     level : {Absent, "debug", BadType}]

NoDoc == [kind |-> "none", images |-> [has |-> FALSE, m |-> EmptyImages],
          pvc |-> Absent, secret |-> Absent, level |-> Absent]
NoKeyDoc == [NoDoc EXCEPT !.kind = "nokey"]
SyntaxErrDoc == [NoDoc EXCEPT !.kind = "syntax"]

Docs == JsonDocs \cup {NoKeyDoc, SyntaxErrDoc}

\* json.Unmarshal of one string field into an existing value
UnmarshalString(old, new) == IF new \in {Absent, BadType} THEN old ELSE new

\* json.Unmarshal into an existing map: the map is reused, its entries kept
UnmarshalMap(old, sec) ==
    IF sec.has
      THEN [k \in (DOMAIN old) \cup (DOMAIN sec.m) |->
              IF k \in DOMAIN sec.m THEN sec.m[k] ELSE old[k]]
      ELSE old

\* json.Unmarshal([]byte(data), &Config): decodes into the live Config value
Unmarshal(c, d) ==
    [Images |-> UnmarshalMap(c.Images, d.images),
     PVC |-> UnmarshalString(c.PVC, d.pvc),
     Secret |-> UnmarshalString(c.Secret, d.secret),
     Level |-> UnmarshalString(c.Level, d.level)]

\* json.Unmarshal's error: a type mismatch is reported after decoding the rest
UnmarshalError(d) == BadType \in {d.pvc, d.secret, d.level}

\* validate(config)
validate(config) == \A k \in RequiredImageKeys : k \in DOMAIN config.Images

ErrNoDataKey == "ConfigMap doesn't have data key"
ErrSyntax == "invalid JSON"
ErrUnmarshalType == "json: cannot unmarshal number into string field"
ErrValidate == "validate config failed"

InitConfig ==
    /\ Config = ZeroConfig
    /\ logLevel = ""
    /\ loadPc = "idle"
    /\ cm = NoDoc
    /\ oldConfig = ZeroConfig
    /\ loadErr = NoErr

\* LoadConfig(cm)
LoadConfig(d) ==
    /\ loadPc = "idle"
    /\ cm' = d
    /\ oldConfig' = Config
    /\ loadPc' = "returned"
    /\ IF d.kind = "nokey"
         THEN loadErr' = ErrNoDataKey /\ UNCHANGED <<Config, logLevel>>
         ELSE IF d.kind = "syntax"
           THEN loadErr' = ErrSyntax /\ UNCHANGED <<Config, logLevel>>
           ELSE /\ Config' = Unmarshal(Config, d)
                /\ IF UnmarshalError(d)
                     THEN loadErr' = ErrUnmarshalType /\ logLevel' = logLevel
                     ELSE IF ~validate(Config')
                       THEN loadErr' = ErrValidate /\ logLevel' = logLevel
                       ELSE loadErr' = NoErr /\ logLevel' = Config'.Level
    /\ UNCHANGED <<wvars, ovars, pvars>>

\* The caller takes LoadConfig's result; the next load may begin
LoadReturn ==
    /\ loadPc = "returned"
    /\ loadPc' = "idle"
    /\ cm' = NoDoc
    /\ oldConfig' = ZeroConfig
    /\ loadErr' = NoErr
    /\ UNCHANGED <<Config, logLevel>>
    /\ UNCHANGED <<wvars, ovars, pvars>>

NextConfig ==
    \/ \E d \in Docs : LoadConfig(d)
    \/ LoadReturn

(***************************************************************************)
(* Specifications                                                          *)
(***************************************************************************)
(***************************************************************************)
(* Operator: concurrent UpdateStageStatus calls on one WorkflowRun, each a *)
(* get-latest -> apply-delta -> conditional write-back with a bounded      *)
(* number of attempts                                                      *)
(***************************************************************************)
\* Attempts one UpdateStageStatus call may make; the contract only says the
\* budget is small and fixed
RetryBudget == 2
\* Largest number of concurrent writers (one stage each): one more than the
\* budget, so that a writer can lose every attempt it has
MaxWriters == RetryBudget + 1

Writers == 1..MaxWriters
Active == 1..nWriters

\* Stage status not yet written
Unset == 0
\* The status writer i records for its own stage
ValueOf(i) == 10 + i

IdleWriter == [pc |-> "off", tries |-> 0, rv |-> 0, st |-> [s \in Writers |-> Unset]]

InitOperOff ==
    /\ nWriters = 0
    /\ oStore = [rv |-> 0, st |-> [s \in Writers |-> Unset]]
    /\ ow = [i \in Writers |-> IdleWriter]

InitOper ==
    /\ nWriters \in Writers
    /\ oStore = [rv |-> 0, st |-> [s \in Writers |-> Unset]]
    /\ ow = [i \in Writers |->
               IF i <= nWriters THEN [IdleWriter EXCEPT !.pc = "get"] ELSE IdleWriter]

\* get-latest: read the run record with its version
OperGet(i) ==
    /\ ow[i].pc = "get"
    /\ ow' = [ow EXCEPT ![i] = [pc |-> "put", tries |-> @.tries + 1,
                                rv |-> oStore.rv, st |-> oStore.st]]
    /\ UNCHANGED <<nWriters, oStore, wvars, cvars, pvars>>

\* Write-back that ignores the record's version
OperPut_Unconditional(i) ==
    /\ ow[i].pc = "put"
    /\ oStore' = [rv |-> oStore.rv + 1, st |-> [ow[i].st EXCEPT ![i] = ValueOf(i)]]
    /\ ow' = [ow EXCEPT ![i].pc = "ok"]
    /\ UNCHANGED <<nWriters, wvars, cvars, pvars>>

\* apply-delta and conditional write-back; on conflict retry while the
\* budget lasts, else surface the conflict
OperPut(i) ==
    /\ ow[i].pc = "put"
    /\ IF oStore.rv = ow[i].rv
         THEN /\ oStore' = [rv |-> oStore.rv + 1,
                            st |-> [ow[i].st EXCEPT ![i] = ValueOf(i)]]
              /\ ow' = [ow EXCEPT ![i].pc = "ok"]
         ELSE /\ oStore' = oStore
              /\ ow' = [ow EXCEPT ![i].pc =
                          IF ow[i].tries < RetryBudget THEN "get" ELSE "conflict"]
    /\ UNCHANGED <<nWriters, wvars, cvars, pvars>>

NextOper ==
    \/ \E i \in Writers : OperGet(i)
    \/ \E i \in Writers : OperPut(i)

(***************************************************************************)
(* UpdateProject (server handler): retry.RetryOnConflict around            *)
(* Get -> DeepCopy -> set Spec, merge annotations and labels -> Update     *)
(***************************************************************************)
\* retry.DefaultRetry: number of attempts RetryOnConflict makes
DefaultRetrySteps == 5
\* Largest number of writes by other clients during one UpdateProject call
MaxOtherWrites == 5

EmptyMap == [k \in {} |-> ""]
LabelMaps == {EmptyMap, [k \in {"owner"} |-> "a"], [k \in {"owner"} |-> "b"]}
AnnotationMaps == {EmptyMap, [k \in {"note"} |-> "x"]}

NilProject == [nil |-> TRUE, rv |-> 0, Spec |-> "", Labels |-> EmptyMap, Annotations |-> EmptyMap]
Project(rv, spec, labels, annotations) ==
    [nil |-> FALSE, rv |-> rv, Spec |-> spec, Labels |-> labels, Annotations |-> annotations]

ErrConflict == "conflict"
ErrServer == "server error"
NoUErr == [converted |-> FALSE, cause |-> NoErr]
\* cerr.ConvertK8sError
ConvertK8sError(e) == [converted |-> TRUE, cause |-> e]

\* MergeMap(in, out): the entries of in are copied over those of out
MergeMap(in, out) ==
    [k \in (DOMAIN in) \cup (DOMAIN out) |-> IF k \in DOMAIN in THEN in[k] ELSE out[k]]

NoCommit == [done |-> FALSE, read |-> NilProject, before |-> NilProject, written |-> NilProject]

InitProjectOff ==
    /\ pStore = NilProject
    /\ req = NilProject
    /\ uPc = "off"
    /\ attempts = 0
    /\ origin = NilProject
    /\ newProject = NilProject
    /\ uErr = NoUErr
    /\ uRet = NilProject
    /\ commit = NoCommit
    /\ otherWrites = 0

\* A stored project and the caller's project object at the call of
\* UpdateProject(ctx, tenant, pName, project)
InitProject ==
    /\ \E l \in LabelMaps, a \in AnnotationMaps : pStore = Project(1, "spec-0", l, a)
    /\ \E l \in LabelMaps, a \in AnnotationMaps : req = Project(0, "spec-1", l, a)
    /\ uPc = "get"
    /\ attempts = 0
    /\ origin = NilProject
    /\ newProject = NilProject
    /\ uErr = NoUErr
    /\ uRet = NilProject
    /\ commit = NoCommit
    /\ otherWrites = 0

\* One attempt, first half: Get, DeepCopy, set Spec, merge maps
UpdateProjectGet ==
    /\ uPc = "get"
    /\ attempts' = attempts + 1
    /\ \E e \in {NoErr, ErrServer} :
         IF e # NoErr
           THEN /\ uErr' = ConvertK8sError(e)
                /\ uRet' = NilProject
                /\ uPc' = "done"
                /\ UNCHANGED <<origin, newProject>>
           ELSE /\ origin' = pStore
                /\ newProject' = Project(pStore.rv, req.Spec,
                                         MergeMap(req.Labels, pStore.Labels),
                                         MergeMap(req.Annotations, pStore.Annotations))
                /\ uPc' = "update"
                /\ UNCHANGED <<uErr, uRet>>
    /\ UNCHANGED <<pStore, req, commit, otherWrites, wvars, cvars, ovars>>

\* Update that overwrites the stored project whatever its version
UpdateProjectUpdate_Unconditional ==
    /\ uPc = "update"
    /\ pStore' = [newProject EXCEPT !.rv = pStore.rv + 1]
    /\ commit' = [done |-> TRUE, read |-> origin, before |-> pStore, written |-> newProject]
    /\ uErr' = NoUErr
    /\ uRet' = req
    /\ uPc' = "done"
    /\ UNCHANGED <<req, attempts, origin, newProject, otherWrites, wvars, cvars, ovars>>

\* One attempt, second half: conditional Update; RetryOnConflict retries a
\* conflict while attempts remain; UpdateProject returns (nil, converted
\* error) on failure and (project, nil) on success
UpdateProjectUpdate ==
    /\ uPc = "update"
    /\ IF newProject.rv # pStore.rv
         THEN /\ IF attempts < DefaultRetrySteps
                   THEN uPc' = "get" /\ UNCHANGED <<uErr, uRet>>
                   ELSE /\ uErr' = ConvertK8sError(ErrConflict)
                        /\ uRet' = NilProject
                        /\ uPc' = "done"
              /\ UNCHANGED <<pStore, commit>>
         ELSE \E e \in {NoErr, ErrServer} :
                IF e # NoErr
                  THEN /\ uErr' = ConvertK8sError(e)
                       /\ uRet' = NilProject
                       /\ uPc' = "done"
                       /\ UNCHANGED <<pStore, commit>>
                  ELSE /\ pStore' = [newProject EXCEPT !.rv = pStore.rv + 1]
                       /\ commit' = [done |-> TRUE, read |-> origin, before |-> pStore,
                                     written |-> newProject]
                       /\ uErr' = NoUErr
                       /\ uRet' = req
                       /\ uPc' = "done"
    /\ UNCHANGED <<req, attempts, origin, newProject, otherWrites, wvars, cvars, ovars>>

\* Another client updates the same project while UpdateProject is running
OtherClientWrite ==
    /\ uPc \in {"get", "update"}
    /\ otherWrites < MaxOtherWrites
    /\ otherWrites' = otherWrites + 1
    /\ \E l \in LabelMaps :
         pStore' = [pStore EXCEPT !.rv = @ + 1, !.Labels = l]
    /\ UNCHANGED <<req, uPc, attempts, origin, newProject, uErr, uRet, commit, wvars, cvars, ovars>>

NextProject ==
    \/ UpdateProjectGet
    \/ UpdateProjectUpdate
    \/ OtherClientWrite
Init == InitWorkload /\ InitConfig /\ InitOperOff /\ InitProjectOff

Next == NextWorkload

Spec == Init /\ [][Next]_vars

InitLoad ==
    /\ InitConfig
    /\ InitOperOff
    /\ InitProjectOff
    /\ InitWorkload
    /\ stg = [Pod |-> FALSE, Delegation |-> FALSE]
    /\ stages = NoStageStatus

SpecConfig == InitLoad /\ [][NextConfig]_vars

InitNoStage ==
    /\ InitWorkload
    /\ stg = [Pod |-> FALSE, Delegation |-> FALSE]
    /\ stages = NoStageStatus

InitOperator == InitNoStage /\ InitConfig /\ InitOper /\ InitProjectOff

SpecOper == InitOperator /\ [][NextOper]_vars

InitUpdateProject == InitNoStage /\ InitConfig /\ InitOperOff /\ InitProject

SpecProject == InitUpdateProject /\ [][NextProject]_vars


(***************************************************************************)
(* Properties                                                              *)
(***************************************************************************)
Range(s) == {s[i] : i \in DOMAIN s}

\* The Operator calls the processor has issued, in order
ProcessorWrites ==
    SelectSeq(trace, LAMBDA e : e.op \in {"UpdateStageStatus", "UpdateStagePodInfo"})

StatusWrites == SelectSeq(trace, LAMBDA e : e.op = "UpdateStageStatus")

IndexOf(e) == CHOOSE i \in DOMAIN trace : trace[i] = e

\* C1: a stage with neither or both workloads makes Process() return the
\* configuration error, with no Operator write, no pod submission, no
\* delegation call, no event and no watcher.
C1_InvalidWorkloadRejected ==
    (stg.Pod <=> stg.Delegation) =>
        /\ trace = << >>
        /\ watcher = "none"
        /\ delegate = "idle"
        /\ podPhase = ""
        /\ po = NoPod
        /\ ret.returned =>
             /\ ret.msg = (IF stg.Pod THEN ErrBoth ELSE ErrNone)
             /\ pc = "done"

C1_Witness ==
    /\ ret.returned
    /\ stg.Pod /\ stg.Delegation
    /\ ret.msg = ErrBoth

\* C2: when the re-read in processDelegation returns a terminal phase for the
\* stage (the delegate's callback came first), the processor issues no
\* UpdateStageStatus at all, returns nil, and the stored phase stays the
\* terminal phase that was read.
C2_TerminalNotOverwritten ==
    (latestWfr.ok /\ IsPhaseTerminated(latestWfr.Phase)) =>
        /\ StatusWrites = << >>
        /\ pc = "done"
        /\ ret = RetNil
        /\ stages.Phase = latestWfr.Phase

C2_Witness ==
    /\ delegate = "reported"
    /\ latestWfr.ok
    /\ latestWfr.Phase = StatusFailed
    /\ pc = "done"

\* C3: after a successful pod submission the processor's Operator calls are
\* exactly UpdateStageStatus(Running) followed by UpdateStagePodInfo(pod
\* name, namespace), and the watcher was launched before the Running write:
\* whenever that write is in the record's history the watcher exists and its
\* launch precedes the write.
C3_RunningAfterWatcher ==
    /\ (pc = "done" /\ po # NoPod) =>
          /\ ret = RetNil
          /\ ProcessorWrites = <<StatusCall(StatusRunning, "StagePodCreated"),
                                 PodInfoCall(ThePod)>>
          /\ stages.Pod = [Name |-> "stage-pod", Namespace |-> "exec-ns"]
    /\ (StatusCall(StatusRunning, "StagePodCreated") \in Range(trace)) =>
          /\ watcher # "none"
          /\ GoWork(ThePod) \in Range(trace)
          /\ IndexOf(GoWork(ThePod)) < IndexOf(StatusCall(StatusRunning, "StagePodCreated"))

C3_Witness ==
    /\ pc = "done"
    /\ po = ThePod
    /\ stages.Phase = StatusRunning
    /\ stages.Pod = ThePod

\* C4 (as claimed): PodInfo is set in the stage's record exactly when the
\* processor has recorded Running on the pod path.
C4_PodInfoIffRunning ==
    (stages.Pod # NoPodInfo) <=>
        (StatusCall(StatusRunning, "StagePodCreated") \in Range(trace))

\* C5: a failed pod submission writes Pending for a quota-exceeded error and
\* Failed for any other error, with reason CreatePodError, and Process()
\* returns an error wrapping the submission error.
C5_SubmissionFailurePhase ==
    (pc = "done" /\ err \in {ErrExceededQuota, ErrCreateOther}) =>
        /\ StatusWrites =
             <<StatusCall(IF err = ErrExceededQuota THEN StatusPending ELSE StatusFailed,
                          "CreatePodError")>>
        /\ stages.Phase = (IF err = ErrExceededQuota THEN StatusPending ELSE StatusFailed)
        /\ stages.Reason = "CreatePodError"
        /\ ret = [returned |-> TRUE, msg |-> "create pod", wraps |-> err]

C5_Witness ==
    /\ pc = "done"
    /\ err = ErrExceededQuota
    /\ stages.Phase = StatusPending

\* Process() has returned an error produced by a realizer
RealizerError == ret.returned /\ ret # RetNil /\ ret.msg \notin {ErrBoth, ErrNone}

\* C6 (as claimed): whenever Process() returns a realizer error, an
\* UpdateStageStatus with Phase=Failed has been issued before the return.
C6_FailedAlwaysRecorded ==
    RealizerError => \E i \in DOMAIN trace :
                        trace[i].op = "UpdateStageStatus" /\ trace[i].a = StatusFailed

\* C6 (amended): whenever Process() returns a realizer error other than the
\* failure of processDelegation's re-read, exactly one UpdateStageStatus with
\* the path's reason code has been issued before the return; its phase is
\* Failed, except Pending for a quota-exceeded submission error.
C6_ErrorRecordedExceptReread ==
    (RealizerError /\ err # ErrGet) =>
        /\ err \in {ErrBuild, ErrExceededQuota, ErrCreateOther, ErrDelegate}
        /\ StatusWrites =
             <<StatusCall(IF err = ErrExceededQuota THEN StatusPending ELSE StatusFailed,
                          CASE err = ErrBuild -> "GeneratePodError"
                            [] err \in {ErrExceededQuota, ErrCreateOther} -> "CreatePodError"
                            [] err = ErrDelegate -> "DelegationFailure")>>

C6_Witness ==
    /\ RealizerError
    /\ err = ErrDelegate
    /\ stages.Phase = StatusFailed
    /\ stages.Reason = "DelegationFailure"

\* Image keys a document's images section carries
DocImageKeys(d) == IF d.images.has THEN DOMAIN d.images.m ELSE {}

\* C7 (as claimed): a LoadConfig that fails validation leaves the active
\* configuration exactly as it was before the call.
C7_FailedLoadKeepsConfig ==
    (loadPc = "returned" /\ loadErr = ErrValidate) => Config = oldConfig

\* C8 (as claimed): in any sequence of loads, a document whose images section
\* lacks a required key is rejected, and a well-formed document carrying the
\* four required keys is accepted whatever its gc image, pvc and secret.
C8_MissingKeyRejected ==
    (loadPc = "returned" /\ cm.kind = "json") =>
        /\ ~(RequiredImageKeys \subseteq DocImageKeys(cm)) => loadErr # NoErr
        /\ (RequiredImageKeys \subseteq DocImageKeys(cm) /\ ~UnmarshalError(cm))
              => loadErr = NoErr

\* C9 (as claimed): after a successful LoadConfig of document D the active
\* configuration is the one D alone describes.
C9_ReloadWholesale ==
    (loadPc = "returned" /\ loadErr = NoErr) =>
        Config = [Images |-> (IF cm.images.has THEN cm.images.m ELSE EmptyImages),
                  PVC |-> (IF cm.pvc = Absent THEN "" ELSE cm.pvc),
                  Secret |-> (IF cm.secret = Absent THEN "" ELSE cm.secret),
                  Level |-> (IF cm.level = Absent THEN "" ELSE cm.level)]

\* C10 (as claimed): a failed pod submission, of either class, records a
\* warning event whose reason is CreatePodError.
C10_WarningReasonCreatePodError ==
    (pc = "done" /\ err \in {ErrExceededQuota, ErrCreateOther}) =>
        Eventf(EventTypeWarning, "CreatePodError") \in Range(trace)

\* The events the processor has emitted, in order
Events == SelectSeq(trace, LAMBDA e : e.op = "Eventf")

Count(e) == Cardinality({i \in DOMAIN trace : trace[i] = e})

\* C11: on every failure path that writes Failed or Pending (build failure,
\* submission failure of either class, delegation failure) exactly one event
\* is emitted, it is a Warning, it precedes the path's single status write,
\* and no Normal event is emitted.
C11_OneWarningBeforeStatus ==
    (pc = "done" /\ err \in {ErrBuild, ErrExceededQuota, ErrCreateOther, ErrDelegate}) =>
        /\ Len(Events) = 1
        /\ Events[1].a = EventTypeWarning
        /\ \A i \in DOMAIN trace : ~(trace[i].op = "Eventf" /\ trace[i].a = EventTypeNormal)
        /\ Len(StatusWrites) = 1
        /\ StatusWrites[1].a \in {StatusFailed, StatusPending}
        /\ \E i, j \in DOMAIN trace :
              /\ i < j
              /\ trace[i].op = "Eventf"
              /\ trace[j].op = "UpdateStageStatus"

C11_Witness ==
    /\ pc = "done"
    /\ err = ErrBuild
    /\ trace = <<Eventf(EventTypeWarning, "GeneratePodSpecError"),
                 StatusCall(StatusFailed, "GeneratePodError")>>

\* C12: when the delegation call succeeds and the re-read fails,
\* processDelegation returns the fetch error and issues no Operator call; the
\* stage's record is as it was when Process() was invoked, unless the
\* delegate itself has reported meanwhile.
C12_RereadFailureNoMutation ==
    (pc = "done" /\ err = ErrGet) =>
        /\ ret = [returned |-> TRUE, msg |-> "", wraps |-> ErrGet]
        /\ ProcessorWrites = << >>
        /\ delegate # "reported" => stages = stages0
        /\ delegate = "reported" => stages.Reason = "DelegateReported"

C12_Witness ==
    /\ pc = "done"
    /\ err = ErrGet
    /\ delegate = "accepted"
    /\ stages = stages0

\* C13: when the delegation call fails, processDelegation emits the warning
\* event, writes Failed with reason DelegationFailure, returns the error, and
\* neither re-reads the run nor writes Waiting.
C13_DelegationFailure ==
    (err = ErrDelegate /\ pc # "delegateFailed") =>
        /\ pc = "done"
        /\ trace = <<DelegateCall,
                     Eventf(EventTypeWarning, "DelegationFailure"),
                     StatusCall(StatusFailed, "DelegationFailure")>>
        /\ ret = [returned |-> TRUE, msg |-> "", wraps |-> ErrDelegate]
        /\ stages.Phase = StatusFailed
        /\ stages.Reason = "DelegationFailure"
        /\ delegate = "idle"

C13_Witness ==
    /\ pc = "done"
    /\ err = ErrDelegate
    /\ stages.Phase = StatusFailed

\* C14: delegation-only stage, call accepted, re-read shows no terminal phase
\* (or no entry at all): Process() returns nil, the only event is Normal
\* DelegationSucceed, and the processor's only status write is Waiting with
\* reason DelegationSucceed.
C14_WaitingAfterDelegation ==
    (/\ pc = "done"
     /\ GetCall \in Range(trace)
     /\ err = NoErr
     /\ ~(latestWfr.ok /\ latestWfr.Phase \in {StatusSucceeded, StatusFailed})) =>
        /\ stg = [Pod |-> FALSE, Delegation |-> TRUE]
        /\ ret = RetNil
        /\ Events = <<Eventf(EventTypeNormal, "DelegationSucceed")>>
        /\ ProcessorWrites = <<StatusCall(StatusWaiting, "DelegationSucceed")>>

C14_Witness ==
    /\ pc = "done"
    /\ GetCall \in Range(trace)
    /\ ~latestWfr.ok
    /\ stages.Phase = StatusWaiting
    /\ stages.Reason = "DelegationSucceed"

\* C17: a failing pod-path execution makes at most one submission attempt
\* (none after a build failure), returns right after recording the failure,
\* starts no watcher, and writes neither Running nor PodInfo.
C17_FailedPodPathFrame ==
    (err \in {ErrBuild, ErrExceededQuota, ErrCreateOther}) =>
        /\ pc \in {"buildFailed", "createFailed", "done"}
        /\ Count(CreateCall) = (IF err = ErrBuild THEN 0 ELSE 1)
        /\ watcher = "none"
        /\ podPhase = ""
        /\ \A i \in DOMAIN trace :
              /\ trace[i].op # "go Work"
              /\ trace[i].op # "UpdateStagePodInfo"
              /\ ~(trace[i].op = "UpdateStageStatus" /\ trace[i].a = StatusRunning)
        /\ stages.Phase # StatusRunning
        /\ stages.Pod = stages0.Pod

C17_Witness ==
    /\ pc = "done"
    /\ err = ErrExceededQuota
    /\ Count(CreateCall) = 1

\* C18 (as claimed): on the pod path, once the watcher has recorded a
\* terminal phase for the stage, no later step sets the phase to Running.
C18_TerminalNotOverwrittenByRunning ==
    [][(watcher = "stopped" /\ IsPhaseTerminated(stages.Phase))
          => stages'.Phase # StatusRunning]_vars

\* C19 (as claimed): on the delegation path, once the delegate has recorded
\* a terminal phase for the stage, no later step sets the phase to Waiting.
C19_TerminalNotOverwrittenByWaiting ==
    [][(delegate = "reported" /\ IsPhaseTerminated(stages.Phase))
          => stages'.Phase # StatusWaiting]_vars

\* Every active writer's UpdateStageStatus call has returned
WritersDone == \A i \in Active : ow[i].pc \in {"ok", "conflict"}

\* C15 (as claimed): N concurrent UpdateStageStatus calls for distinct stages
\* all succeed, and afterwards each stage holds what its writer wrote.
C15_AllWritersSucceed ==
    WritersDone => \A i \in Active : ow[i].pc = "ok" /\ oStore.st[i] = ValueOf(i)

\* C15 (amended): no call makes more attempts than the budget; when the
\* number of concurrent writers does not exceed the budget no call ends with
\* the conflict error; a stage whose call succeeded holds the value written
\* for it whatever the other writers do, and a stage whose call has not
\* succeeded is untouched.
C15_NoLossWithinBudget ==
    /\ \A i \in Active : ow[i].tries <= RetryBudget
    /\ nWriters <= RetryBudget => \A i \in Active : ow[i].pc # "conflict"
    /\ \A i \in Active : ow[i].pc = "ok" => oStore.st[i] = ValueOf(i)
    /\ \A i \in Writers : (i \notin Active \/ ow[i].pc # "ok") => oStore.st[i] = Unset

C15_Witness ==
    /\ nWriters = 2
    /\ \A i \in Active : ow[i].pc = "ok"
    /\ \E i \in Active : ow[i].tries = 2
    /\ oStore.st[1] = ValueOf(1)
    /\ oStore.st[2] = ValueOf(2)

\* C16 (as claimed): on success UpdateProject returns the project as it was
\* written to the store: the request's Spec with the merged labels and
\* annotations.
C16_ReturnsUpdatedProject ==
    (uPc = "done" /\ uErr = NoUErr) =>
        /\ ~uRet.nil
        /\ uRet.Spec = commit.written.Spec
        /\ uRet.Labels = commit.written.Labels
        /\ uRet.Annotations = commit.written.Annotations

\* C20: UpdateProject makes at most DefaultRetrySteps attempts; a write it
\* commits is built from the project read in the same attempt and lands on
\* exactly that version; a conflict is an error only when the attempts are
\* used up; on any error it returns a nil project with the converted error
\* and the store holds no write of its own.
C20_UpdateProjectConflictSafe ==
    /\ attempts <= DefaultRetrySteps
    /\ pStore.rv = 1 + otherWrites + (IF commit.done THEN 1 ELSE 0)
    /\ commit.done =>
          /\ commit.read = commit.before
          /\ commit.written.rv = commit.before.rv
          /\ commit.written.Spec = req.Spec
          /\ commit.written.Labels = MergeMap(req.Labels, commit.before.Labels)
          /\ commit.written.Annotations = MergeMap(req.Annotations, commit.before.Annotations)
          /\ uPc = "done"
          /\ uErr = NoUErr
    /\ (uPc = "done" /\ uErr # NoUErr) =>
          /\ uRet = NilProject
          /\ uErr.converted
          /\ ~commit.done
          /\ uErr.cause = ErrConflict => attempts = DefaultRetrySteps

C20_Witness ==
    /\ uPc = "done"
    /\ uErr = [converted |-> TRUE, cause |-> ErrConflict]
    /\ attempts = 5
    /\ uRet.nil

====
